---- MODULE Spec2Model ----
(***************************************************************************)
(* A model of kiroku-app (src/app.py): the symptom-record store (User,     *)
(* Record), the request handlers that read and write it (register, index,  *)
(* delete_record, delete_account, report) and the report's chart series.   *)
(*                                                                         *)
(* Python values are tagged records ([t |-> "str", ...]), so that int(),   *)
(* dict.get() and json.loads() can fail the way they do in Python.  A      *)
(* stored text is either the serialisation of a Python value (json.dumps)  *)
(* or a raw string that is not JSON.  A datetime is the record of its      *)
(* fields, compared field by field, as datetime compares.                  *)
(* Not modelled: registration, passwords, login/logout (the caller of a     *)
(* handler is a user that load_user finds), templates, the /health route.  *)
(***************************************************************************)
EXTENDS Integers, Sequences, FiniteSets, TLC

\* ------------------------------------------------------------------ bounds

\* At most this many Record rows exist at a time (guards the inserts).
MaxRecords == 2

\* ------------------------------------------------------- calendar and clock

\* JST = pytz.timezone('Asia/Tokyo'): UTC+9, no DST for the modelled dates.
JST == 9

IsLeap(y) ==
    (y % 4 = 0) /\ ((y % 100 # 0) \/ (y % 400 = 0))

DaysInMonth(y, m) ==
    IF m = 2 THEN (IF IsLeap(y) THEN 29 ELSE 28)
    ELSE IF m \in {4, 6, 9, 11} THEN 30 ELSE 31

\* datetime(year, month, day, hour, minute, second, microsecond)
datetime(y, mo, d, h, mi, s, us) ==
    [year |-> y, month |-> mo, day |-> d, hour |-> h, minute |-> mi,
     second |-> s, microsecond |-> us]

\* date(year, month, day)
date(y, mo, d) ==
    [year |-> y, month |-> mo, day |-> d]

DtKey(a) ==
    <<a.year, a.month, a.day, a.hour, a.minute, a.second, a.microsecond>>

\* a < b on datetimes (lexicographic on the fields)
DtLT(a, b) ==
    LET ka == DtKey(a)
        kb == DtKey(b)
    IN \E i \in 1..7 : ka[i] < kb[i] /\ \A j \in 1..(i - 1) : ka[j] = kb[j]

DtLE(a, b) ==
    a = b \/ DtLT(a, b)

DateLT(a, b) ==
    \/ a.year < b.year
    \/ a.year = b.year /\ a.month < b.month
    \/ a.year = b.year /\ a.month = b.month /\ a.day < b.day

PrevDay(a) ==
    IF a.day > 1 THEN [a EXCEPT !.day = a.day - 1]
    ELSE IF a.month > 1
         THEN [a EXCEPT !.month = a.month - 1,
                        !.day = DaysInMonth(a.year, a.month - 1)]
         ELSE [a EXCEPT !.year = a.year - 1, !.month = 12, !.day = 31]

NextDay(a) ==
    IF a.day < DaysInMonth(a.year, a.month) THEN [a EXCEPT !.day = a.day + 1]
    ELSE IF a.month < 12
         THEN [a EXCEPT !.month = a.month + 1, !.day = 1]
         ELSE [a EXCEPT !.year = a.year + 1, !.month = 1, !.day = 1]

\* dt + timedelta(hours=h), for -24 < h < 24
AddHours(dt, h) ==
    LET t == dt.hour + h
    IN IF t < 0 THEN [PrevDay(dt) EXCEPT !.hour = t + 24]
       ELSE IF t >= 24 THEN [NextDay(dt) EXCEPT !.hour = t - 24]
       ELSE [dt EXCEPT !.hour = t]

\* (mutant) the local wall time taken for UTC as it stands
localize_without_offset(naive) ==
    naive

\* JST.localize(naive).astimezone(pytz.utc): a local wall time as UTC
localize_to_utc(naive) ==
    AddHours(naive, 0 - JST)

\* utc_dt.replace(tzinfo=pytz.utc).astimezone(JST): a UTC time as local
astimezone_JST(utc_dt) ==
    AddHours(utc_dt, JST)

Pad2(n) ==
    IF n < 10 THEN "0" \o ToString(n) ELSE ToString(n)

\* strftime('%H:%M')
strftime_HM(dt) ==
    Pad2(dt.hour) \o ":" \o Pad2(dt.minute)

\* strftime('%m/%d')
strftime_md(d) ==
    Pad2(d.month) \o "/" \o Pad2(d.day)

\* ------------------------------------------------------------ string parsing

IsDigit(c) ==
    c \in {"0", "1", "2", "3", "4", "5", "6", "7", "8", "9"}

DigitVal(c) ==
    CASE c = "0" -> 0 [] c = "1" -> 1 [] c = "2" -> 2 [] c = "3" -> 3
      [] c = "4" -> 4 [] c = "5" -> 5 [] c = "6" -> 6 [] c = "7" -> 7
      [] c = "8" -> 8 [] c = "9" -> 9

Char(s, i) ==
    SubSeq(s, i, i)

AllDigits(s) ==
    Len(s) > 0 /\ \A i \in 1..Len(s) : IsDigit(Char(s, i))

RECURSIVE DecVal(_)
\* the value of a string of decimal digits
DecVal(s) ==
    IF Len(s) = 0 THEN 0
    ELSE 10 * DecVal(SubSeq(s, 1, Len(s) - 1)) + DigitVal(Char(s, Len(s)))

\* datetime.strptime(s, '%Y-%m-%d'): %Y is four digits, %m and %d one or two
\* digits in range, the whole string must match, and the day must exist.
\* [ok |-> FALSE] stands for ValueError.
strptime(s) ==
    LET dashes == {i \in 1..Len(s) : Char(s, i) = "-"}
        bad == [ok |-> FALSE, value |-> datetime(1, 1, 1, 0, 0, 0, 0)]
    IN IF Cardinality(dashes) # 2 THEN bad
       ELSE LET p1 == CHOOSE i \in dashes : \A j \in dashes : i <= j
                p2 == CHOOSE i \in dashes : \A j \in dashes : j <= i
                ys == SubSeq(s, 1, p1 - 1)
                ms == SubSeq(s, p1 + 1, p2 - 1)
                ds == SubSeq(s, p2 + 1, Len(s))
            IN IF ~(/\ Len(ys) = 4 /\ AllDigits(ys)
                    /\ Len(ms) \in {1, 2} /\ AllDigits(ms)
                    /\ Len(ds) \in {1, 2} /\ AllDigits(ds)) THEN bad
               ELSE LET y == DecVal(ys)
                        m == DecVal(ms)
                        d == DecVal(ds)
                    IN IF /\ y >= 1
                          /\ m \in 1..12
                          /\ d >= 1 /\ d <= DaysInMonth(y, m)
                       THEN [ok |-> TRUE, value |-> datetime(y, m, d, 0, 0, 0, 0)]
                       ELSE bad

\* datetime.date()
date_of(dt) ==
    date(dt.year, dt.month, dt.day)

\* ------------------------------------------------------------ Python values

PyStr(s) ==
    [t |-> "str", s |-> s]

PyInt(n) ==
    [t |-> "int", n |-> n]

PyList(items) ==
    [t |-> "list", items |-> items]

\* a dict is a function from its keys (strings) to Python values
PyDict(d) ==
    [t |-> "dict", d |-> d]

PyNone ==
    [t |-> "None"]

EmptyDict ==
    PyDict(<<>>)

\* the outcome of a Python expression: exc = "" when it returns val
Returns(v) ==
    [exc |-> "", val |-> v]

Raises(e) ==
    [exc |-> e, val |-> PyNone]

\* int(v): an int is itself, a str must be an optionally signed run of
\* digits (else ValueError), anything else is a TypeError
int(v) ==
    IF v.t = "int" THEN Returns(v.n)
    ELSE IF v.t = "str"
         THEN LET s == v.s
                  signed == Len(s) > 0 /\ Char(s, 1) \in {"-", "+"}
                  body == IF signed THEN SubSeq(s, 2, Len(s)) ELSE s
              IN IF AllDigits(body)
                 THEN Returns(IF signed /\ Char(s, 1) = "-"
                              THEN 0 - DecVal(body) ELSE DecVal(body))
                 ELSE Raises("ValueError")
         ELSE Raises("TypeError")

\* v.get(key, default): only a dict has .get
get(v, key, default) ==
    IF v.t # "dict" THEN Raises("AttributeError")
    ELSE IF key \in DOMAIN v.d THEN Returns(v.d[key]) ELSE Returns(default)

\* A text is the serialisation of a Python value, or a string that no JSON
\* parser accepts.
json_dumps(v) ==
    [json |-> TRUE, value |-> v]

NotJSON(raw) ==
    [json |-> FALSE, raw |-> raw]

json_loads(text) ==
    IF text.json THEN Returns(text.value) ELSE Raises("JSONDecodeError")

\* {'parts': [], 'strength': {}}
EmptyStiffness ==
    PyDict([parts |-> PyList(<<>>), strength |-> EmptyDict])

\* ------------------------------------------------------------------ requests

\* request.form.get(key, default) / request.args.get(key)
Has(f, key) ==
    key \in DOMAIN f

form_get(f, key, default) ==
    IF Has(f, key) THEN f[key] ELSE default

\* request.form.getlist(key)
getlist(f, key) ==
    IF Has(f, key) THEN f[key] ELSE <<>>

\* request.form.get(key, default, type=int): the default when the field is
\* absent or int() raises ValueError
form_get_int(f, key, default) ==
    IF ~Has(f, key) THEN default
    ELSE LET r == int(PyStr(f[key]))
         IN IF r.exc = "" THEN r.val ELSE default

RECURSIVE join(_, _)
\* sep.join(items)
join(sep, items) ==
    IF Len(items) = 0 THEN ""
    ELSE IF Len(items) = 1 THEN items[1]
    ELSE items[1] \o sep \o join(sep, Tail(items))

StrList(items) ==
    PyList([i \in 1..Len(items) |-> PyStr(items[i])])

\* stiffness_data of index() (src/app.py 97-105)
stiffness_data(f) ==
    PyDict([parts |-> StrList(getlist(f, "stiffness_parts")),
            strength |-> PyDict(
                [R_Hand |-> PyStr(form_get(f, "stiffness_strength_R_Hand", "0")),
                 L_Hand |-> PyStr(form_get(f, "stiffness_strength_L_Hand", "0")),
                 R_Knee |-> PyStr(form_get(f, "stiffness_strength_R_Knee", "0")),
                 L_Knee |-> PyStr(form_get(f, "stiffness_strength_L_Knee", "0"))])])

\* --------------------------------------------------------------- the inputs

\* At most this many requests are in flight at a time (RaceSpec only).
MaxInflight == 2

\* The accounts that exist when the model starts (registered earlier through
\* /register); a request's caller is one of them, named by its id.
Accounts ==
    { [id |-> 1, username |-> "a"], [id |-> 2, username |-> "b"] }

Callers ==
    {a.id : a \in Accounts}

\* The instants at which the clock is read, in UTC.  In local time (UTC+9)
\* they are 2024-06-01 09:00, 14:30, 23:59:59 and 23:59:59.5.
Instants ==
    << datetime(2024, 6, 1, 0, 0, 0, 0),
       datetime(2024, 6, 1, 5, 30, 0, 0),
       datetime(2024, 6, 1, 14, 59, 59, 0),
       datetime(2024, 6, 1, 14, 59, 59, 500000) >>

\* The record forms a client posts to '/'.
Forms ==
    { [date |-> "2024-06-01", numbness_strength |-> "2", memo |-> ""],
      [date |-> "2024-06-02", numbness_strength |-> "5",
       numbness_parts |-> <<"R_Foot", "L_Foot">>,
       stiffness_parts |-> <<"R_Index">>,
       stiffness_strength_R_Hand |-> "3", memo |-> "m"],
      [date |-> "2024-06-01", numbness_strength |-> "x",
       stiffness_strength_L_Knee |-> "abc", memo |-> ""],
      [date |-> "06/01/2024", numbness_strength |-> "2", memo |-> ""] }

\* The query strings a client sends to '/report'.
ReportArgs ==
    { [start_date |-> "2024-06-01"],
      [start_date |-> "", end_date |-> "2024-06-01"],
      [start_date |-> "2024-06-01", end_date |-> "2024/06/01"],
      [start_date |-> "2024-06-01", end_date |-> "2024-06-01"],
      [start_date |-> "2024-05-31", end_date |-> "2024-06-01"] }

\* The date strings of these requests, and strptime of each (the table is
\* evaluated once; every handler reads strptime's result from it).
DateStrings ==
    {f.date : f \in Forms}
        \cup {a.start_date : a \in {x \in ReportArgs : Has(x, "start_date")}}
        \cup {a.end_date : a \in {x \in ReportArgs : Has(x, "end_date")}}

Parsed ==
    [s \in DateStrings |-> strptime(s)]

\* Stiffness texts of rows that an older version or a repair left behind.
LegacyTexts ==
    { NotJSON(""), NotJSON("{oops") }

\* --------------------------------------------------------------- the state

VARIABLES
    users,        \* the user table: a set of [id, username]
    records,      \* the record table: a set of rows
    clock,        \* the index in Instants of the last reading of the clock
    resp,         \* the response to the last request that ended
    fk_enforced,  \* whether the database enforces record.user_id -> user.id
    inflight      \* requests between their reads and their commit (RaceSpec)

vars ==
    <<users, records, clock, resp, fk_enforced, inflight>>

\* datetime.utcnow() at the reading c of the clock
utcnow(c) ==
    Instants[c]

UserIds ==
    {u.id : u \in users}

Max(S) ==
    IF S = {} THEN 0 ELSE CHOOSE x \in S : \A y \in S : y <= x

\* INTEGER PRIMARY KEY: the next rowid is the largest one in the table plus 1
NextRecordId ==
    Max({r.id : r \in records}) + 1

\* a response: status 200 (render), 302 (redirect), 403, 404, 500 (an
\* exception no handler catches)
Response(op, caller, args, status, flash) ==
    [op |-> op, caller |-> caller, args |-> args, status |-> status,
     flash |-> flash, queried |-> FALSE, records |-> <<>>,
     labels |-> <<>>, datasets |-> << <<>>, <<>>, <<>>, <<>>, <<>> >>]

Reverse(q) ==
    [i \in 1..Len(q) |-> q[Len(q) + 1 - i]]

\* ------------------------------------------------------------ the store

\* db.session.get(Record, record_id): the rows with that primary key
db_get(record_id) ==
    {r \in records : r.id = record_id}

\* Record(date=..., author=current_user) with created_at = datetime.utcnow()
\* (src/app.py 107-114 and 49)
new_record(u, f, parsed, c) ==
    [id |-> NextRecordId,
     date |-> date_of(parsed.value),
     created_at |-> utcnow(c),
     numbness_strength |-> form_get_int(f, "numbness_strength", 0),
     numbness_parts |-> join(",", getlist(f, "numbness_parts")),
     stiffness |-> json_dumps(stiffness_data(f)),
     memo |-> f.memo,
     user_id |-> u]

\* (mutant) a cascade that takes every row of the table
cascade_every_record(u) ==
    records

\* User.records with cascade="all, delete-orphan": the rows that
\* db.session.delete(user) loads and marks for deletion with the user
cascade_records(u) ==
    {r \in records : r.user_id = u}

\* Record.query.filter_by(author=current_user)
filter_by_author(u) ==
    {r \in records : r.user_id = u}

\* order_by(Record.date.desc(), Record.created_at.desc())
NewestFirst(a, b) ==
    \/ DateLT(b.date, a.date)
    \/ a.date = b.date /\ DtLT(b.created_at, a.created_at)

\* order_by(Record.created_at.asc())
OldestFirst(a, b) ==
    DtLT(a.created_at, b.created_at)

\* .order_by(...).all(): the sequences that hold each row of S once, in an
\* order the clause allows (rows that tie come in any order)
OrderedBy(S, clause) ==
    LET n == Cardinality(S)
        Before(a, b) == IF clause = "date desc, created_at desc"
                        THEN NewestFirst(a, b) ELSE OldestFirst(a, b)
    IN { q \in [1..n -> S] :
           /\ \A i, j \in 1..n : i # j => q[i] # q[j]
           /\ \A i, j \in 1..n : i < j => ~Before(q[j], q[i]) }

\* (mutant) the range query without the owner condition
filter_range_any_owner(u, start_date_utc, end_date_utc) ==
    {r \in records : /\ DtLE(start_date_utc, r.created_at)
                     /\ DtLE(r.created_at, end_date_utc)}

\* Record.query.filter(Record.user_id == current_user.id,
\*     Record.created_at >= start_date_utc, Record.created_at <= end_date_utc)
filter_range(u, start_date_utc, end_date_utc) ==
    {r \in records : /\ r.user_id = u
                     /\ DtLE(start_date_utc, r.created_at)
                     /\ DtLE(r.created_at, end_date_utc)}

\* record.stiffness_data = ...
Attach(r, data) ==
    [k \in DOMAIN r \cup {"stiffness_data"} |->
        IF k = "stiffness_data" THEN data ELSE r[k]]

\* ------------------------------------------------------ the report's series

\* .replace(hour=23, minute=59, second=59)
end_of_day(dt) ==
    [dt EXCEPT !.hour = 23, !.minute = 59, !.second = 59]

\* (mutant) the month/day of the local created_at
date_part_of_created_at(record) ==
    strftime_md(astimezone_JST(record.created_at))

\* date_part = record.date.strftime('%m/%d')
date_part(record) ==
    strftime_md(record.date)

\* jst_time_part = record.created_at ... astimezone(JST).strftime('%H:%M')
jst_time_part(record) ==
    strftime_HM(astimezone_JST(record.created_at))

\* f"{date_part} {jst_time_part}"
label(record) ==
    date_part(record) \o " " \o jst_time_part(record)

\* labels = [...]; labels.reverse()
labels_of(recs) ==
    Reverse([i \in 1..Len(recs) |-> label(recs[i])])

\* numbness_data = [record.numbness_strength for record in records];
\* numbness_data.reverse()
numbness_data(recs) ==
    Reverse([i \in 1..Len(recs) |-> recs[i].numbness_strength])

\* int(strength.get(key, 0))
region(strength, key) ==
    LET v == get(strength, key, PyInt(0))
    IN IF v.exc # "" THEN v ELSE int(v.val)

\* the body of the try block for one record (src/app.py 247-253): the four
\* values, or the first exception raised
try_body(record) ==
    LET loaded == json_loads(record.stiffness)
        none == [exc |-> "", data |-> PyNone, vals |-> <<0, 0, 0, 0>>]
    IN IF loaded.exc # "" THEN [none EXCEPT !.exc = loaded.exc]
       ELSE LET strength == get(loaded.val, "strength", EmptyDict)
            IN IF strength.exc # "" THEN [none EXCEPT !.exc = strength.exc]
               ELSE LET rh == region(strength.val, "R_Hand")
                        lh == region(strength.val, "L_Hand")
                        rk == region(strength.val, "R_Knee")
                        lk == region(strength.val, "L_Knee")
                    IN IF rh.exc # "" THEN [none EXCEPT !.exc = rh.exc]
                       ELSE IF lh.exc # "" THEN [none EXCEPT !.exc = lh.exc]
                       ELSE IF rk.exc # "" THEN [none EXCEPT !.exc = rk.exc]
                       ELSE IF lk.exc # "" THEN [none EXCEPT !.exc = lk.exc]
                       ELSE [exc |-> "", data |-> loaded.val,
                             vals |-> <<rh.val, lh.val, rk.val, lk.val>>]

\* what the loop has built: the four series, the records with stiffness_data
\* attached, and the exception that ended it, if any
NoSeries ==
    [exc |-> "", r_hand |-> <<>>, l_hand |-> <<>>, r_knee |-> <<>>,
     l_knee |-> <<>>, rows |-> <<>>]

\* the try branch's appends (src/app.py 249-253)
on_decoded(acc, record, row) ==
    [acc EXCEPT !.r_hand = Append(@, row.vals[1]),
                !.l_hand = Append(@, row.vals[2]),
                !.r_knee = Append(@, row.vals[3]),
                !.l_knee = Append(@, row.vals[4]),
                !.rows = Append(@, Attach(record, row.data))]

\* (mutant) an except branch that skips the record
on_decode_error_skip(acc, record) ==
    acc

\* except json.JSONDecodeError (src/app.py 254-259)
on_decode_error(acc, record) ==
    [acc EXCEPT !.r_hand = Append(@, 0),
                !.l_hand = Append(@, 0),
                !.r_knee = Append(@, 0),
                !.l_knee = Append(@, 0),
                !.rows = Append(@, Attach(record, EmptyStiffness))]

RECURSIVE stiffness_loop(_, _, _)
\* for record in records: try ... except json.JSONDecodeError ...
stiffness_loop(recs, i, acc) ==
    IF i > Len(recs) \/ acc.exc # "" THEN acc
    ELSE LET row == try_body(recs[i])
         IN stiffness_loop(recs, i + 1,
                IF row.exc = "" THEN on_decoded(acc, recs[i], row)
                ELSE IF row.exc = "JSONDecodeError"
                     THEN on_decode_error(acc, recs[i])
                     ELSE [acc EXCEPT !.exc = row.exc])

\* the loop and the four .reverse() calls (src/app.py 240-264)
stiffness_series(recs) ==
    LET done == stiffness_loop(recs, 1, NoSeries)
    IN [done EXCEPT !.r_hand = Reverse(@), !.l_hand = Reverse(@),
                    !.r_knee = Reverse(@), !.l_knee = Reverse(@)]

\* index()'s loop (src/app.py 121-125): the decoded text, or the default
decode_for_list(record) ==
    LET loaded == json_loads(record.stiffness)
    IN IF loaded.exc = "JSONDecodeError" THEN Attach(record, EmptyStiffness)
       ELSE Attach(record, loaded.val)

\* ------------------------------------------------------------ the handlers

\* db.session.add(new_record); db.session.commit() (src/app.py 115-118) for a
\* record built for user u: the INSERT fails when the database enforces the
\* foreign key and the user row is gone
commit_record(u, f, parsed, c) ==
    IF fk_enforced /\ u \notin UserIds
    THEN /\ resp' = Response("index_post", u, f, 500, "")
         /\ UNCHANGED <<records, clock>>
    ELSE /\ NextRecordId <= MaxRecords
         /\ records' = records \cup {new_record(u, f, parsed, c)}
         /\ clock' = c
         /\ resp' = Response("index_post", u, f, 302, "success")

\* POST / (src/app.py 90-118), served when the clock reads Instants[c]
index_post(u, f, c) ==
    /\ u \in UserIds
    /\ c >= clock
    /\ LET parsed == Parsed[f.date]
       IN IF ~parsed.ok
          THEN /\ resp' = Response("index_post", u, f, 302, "danger")
               /\ UNCHANGED <<records, clock>>
          ELSE commit_record(u, f, parsed, c)
    /\ UNCHANGED <<users, fk_enforced, inflight>>

\* GET / (src/app.py 120-130)
index_get(u) ==
    /\ u \in UserIds
    /\ \E recs \in OrderedBy(filter_by_author(u), "date desc, created_at desc") :
         resp' = [Response("index_get", u, <<>>, 200, "") EXCEPT
                    !.queried = TRUE,
                    !.records = [i \in 1..Len(recs) |-> decode_for_list(recs[i])]]
    /\ UNCHANGED <<users, records, clock, fk_enforced, inflight>>

\* (mutant) the delete without the owner check
delete_record_unchecked(u, record_id) ==
    /\ u \in UserIds
    /\ LET found == db_get(record_id)
       IN IF found = {}
          THEN /\ resp' = Response("delete_record", u, record_id, 404, "")
               /\ UNCHANGED records
          ELSE /\ records' = records \ found
               /\ resp' = Response("delete_record", u, record_id, 302, "success")
    /\ UNCHANGED <<users, clock, fk_enforced, inflight>>

\* POST /delete/<record_id> (src/app.py 181-192)
delete_record(u, record_id) ==
    /\ u \in UserIds
    /\ LET found == db_get(record_id)
       IN IF found = {}
          THEN /\ resp' = Response("delete_record", u, record_id, 404, "")
               /\ UNCHANGED records
          ELSE IF \E r \in found : r.user_id # u
          THEN /\ resp' = Response("delete_record", u, record_id, 403, "")
               /\ UNCHANGED records
          ELSE /\ records' = records \ found
               /\ resp' = Response("delete_record", u, record_id, 302, "success")
    /\ UNCHANGED <<users, clock, fk_enforced, inflight>>

\* db.session.commit() of delete_account (src/app.py 198): the rows loaded by
\* the cascade are deleted by primary key, then the user row; the DELETE of
\* the user fails when the database enforces the foreign key and a row still
\* refers to the user
commit_account(u, loaded) ==
    LET left == {r \in records : r.id \notin loaded}
    IN IF fk_enforced /\ \E r \in left : r.user_id = u
       THEN /\ resp' = Response("delete_account", u, <<>>, 500, "")
            /\ UNCHANGED <<users, records>>
       ELSE /\ records' = left
            /\ users' = {x \in users : x.id # u}
            /\ resp' = Response("delete_account", u, <<>>, 302, "info")

\* POST /delete_account (src/app.py 194-201)
delete_account(u) ==
    /\ u \in UserIds
    /\ commit_account(u, {r.id : r \in cascade_records(u)})
    /\ UNCHANGED <<clock, fk_enforced, inflight>>

\* `not start_date_str or not end_date_str` (src/app.py 209)
bounds_missing(args) ==
    \/ ~Has(args, "start_date") \/ ~Has(args, "end_date")
    \/ args.start_date = "" \/ args.end_date = ""

\* the chart and the table of a report over the rows recs (src/app.py 229-282)
render_report(u, args, recs) ==
    LET series == stiffness_series(recs)
    IN IF series.exc # ""
       THEN [Response("report", u, args, 500, "") EXCEPT !.queried = TRUE]
       ELSE [Response("report", u, args, 200, "") EXCEPT
               !.queried = TRUE,
               !.records = series.rows,
               !.labels = labels_of(recs),
               !.datasets = << numbness_data(recs), series.r_hand,
                               series.l_hand, series.r_knee, series.l_knee >>]

\* (mutant) the ValueError of strptime left uncaught
on_value_error_uncaught(u, args) ==
    Response("report", u, args, 500, "")

\* except ValueError: flash(..., 'danger'); redirect (src/app.py 216-218)
on_value_error(u, args) ==
    Response("report", u, args, 302, "danger")

\* the rows of the query for the parsed bounds (src/app.py 215, 220-227)
report_query(u, start_date, end_date) ==
    filter_range(u, localize_to_utc(start_date),
                 localize_to_utc(end_of_day(end_date)))

\* GET /report (src/app.py 203-282)
report(u, args) ==
    /\ u \in UserIds
    /\ IF bounds_missing(args)
       THEN resp' = Response("report", u, args, 302, "warning")
       ELSE LET start_date == Parsed[args.start_date]
                end_date == Parsed[args.end_date]
            IN IF ~start_date.ok \/ ~end_date.ok
               THEN resp' = on_value_error(u, args)
               ELSE \E recs \in OrderedBy(
                        report_query(u, start_date.value, end_date.value),
                        "created_at asc") :
                      resp' = render_report(u, args, recs)
    /\ UNCHANGED <<users, records, clock, fk_enforced, inflight>>

\* ------------------------------------------- requests that overlap in time

\* POST / up to the construction of the Record (src/app.py 90-114): the
\* caller is loaded and the form parsed; nothing is written yet
begin_index_post(u, f) ==
    /\ u \in UserIds
    /\ Parsed[f.date].ok
    /\ Cardinality(inflight) < MaxInflight
    /\ inflight' = inflight \cup {[op |-> "index_post", u |-> u, f |-> f]}
    /\ UNCHANGED <<users, records, clock, resp, fk_enforced>>

\* ... and its add and commit (src/app.py 115-118)
end_index_post(req, c) ==
    /\ req \in inflight
    /\ req.op = "index_post"
    /\ c >= clock
    /\ commit_record(req.u, req.f, Parsed[req.f.date], c)
    /\ inflight' = inflight \ {req}
    /\ UNCHANGED <<users, fk_enforced>>

\* POST /delete_account up to db.session.delete(current_user)
\* (src/app.py 197): the cascade has loaded the rows it will delete
begin_delete_account(u) ==
    /\ u \in UserIds
    /\ Cardinality(inflight) < MaxInflight
    /\ inflight' = inflight \cup
           {[op |-> "delete_account", u |-> u,
             loaded |-> {r.id : r \in cascade_records(u)}]}
    /\ UNCHANGED <<users, records, clock, resp, fk_enforced>>

\* ... and its commit (src/app.py 198-201)
end_delete_account(req) ==
    /\ req \in inflight
    /\ req.op = "delete_account"
    /\ commit_account(req.u, req.loaded)
    /\ inflight' = inflight \ {req}
    /\ UNCHANGED <<clock, fk_enforced>>

\* the requests the model can have in flight
Requests ==
    {[op |-> "index_post", u |-> u, f |-> f] : u \in Callers, f \in Forms}
        \cup {[op |-> "delete_account", u |-> u, loaded |-> ids] :
                 u \in Callers, ids \in SUBSET (1..MaxRecords)}

\* ------------------------------------------------------ the specification

\* A database with no record yet, or one that already holds a row whose
\* stiffness text an older version wrote; the row was created at local
\* 2024-05-31 00:00:00.
LegacyRow(text) ==
    [id |-> 1, date |-> date(2024, 5, 31),
     created_at |-> datetime(2024, 5, 30, 15, 0, 0, 0),
     numbness_strength |-> 1, numbness_parts |-> "", stiffness |-> text,
     memo |-> "", user_id |-> 1]

InitStore ==
    /\ users = Accounts
    /\ \/ records = {}
       \/ \E text \in LegacyTexts : records = {LegacyRow(text)}

Init ==
    /\ InitStore
    /\ clock = 1
    /\ resp = Response("none", 0, <<>>, 0, "")
    /\ fk_enforced = FALSE
    /\ inflight = {}

Next ==
    \/ \E u \in Callers, f \in Forms, c \in 1..Len(Instants) :
         index_post(u, f, c)
    \/ \E u \in Callers : index_get(u)
    \/ \E u \in Callers, record_id \in 1..(MaxRecords + 1) :
         delete_record(u, record_id)
    \/ \E u \in Callers : delete_account(u)
    \/ \E u \in Callers, args \in ReportArgs : report(u, args)

Spec ==
    Init /\ [][Next]_vars

\* The same handlers when requests of several workers overlap: a record
\* creation and an account deletion each read first and commit later, and
\* the database may or may not enforce the foreign key (SQLite does not
\* unless told to; src/app.py 16 takes the database from the environment).
RaceInit ==
    /\ InitStore
    /\ clock = 1
    /\ resp = Response("none", 0, <<>>, 0, "")
    /\ fk_enforced \in BOOLEAN
    /\ inflight = {}

RaceNext ==
    \/ \E u \in Callers, f \in Forms : begin_index_post(u, f)
    \/ \E req \in Requests, c \in 1..Len(Instants) : end_index_post(req, c)
    \/ \E u \in Callers : begin_delete_account(u)
    \/ \E req \in Requests : end_delete_account(req)
    \/ \E u \in Callers, record_id \in 1..(MaxRecords + 1) :
         delete_record(u, record_id)

RaceSpec ==
    RaceInit /\ [][RaceNext]_vars

\* ------------------------------------------------------------- the claims

\* the last request was a report that reached render_template
Rendered ==
    resp.op = "report" /\ resp.status = 200

\* the last request was a report whose two bounds parse as dates
ValidBounds(args) ==
    /\ ~bounds_missing(args)
    /\ strptime(args.start_date).ok
    /\ strptime(args.end_date).ok

\* u's rows whose created_at, read in local time, lies between 00:00:00 of
\* start_date and 23:59:59 of end_date
InWindow(u, args) ==
    LET first == strptime(args.start_date).value
        day == strptime(args.end_date).value
        last == datetime(day.year, day.month, day.day, 23, 59, 59, 0)
    IN {r \in records :
          /\ r.user_id = u
          /\ ~DtLT(astimezone_JST(r.created_at), first)
          /\ ~DtLT(last, astimezone_JST(r.created_at))}

\* the four stiffness strengths a record stands for: those of its text, 0
\* where the text does not decode
Strengths(r) ==
    try_body(r).vals

Count(q, x) ==
    Cardinality({i \in 1..Len(q) : q[i] = x})

\* q and p hold the same values the same number of times
SameBag(q, p) ==
    /\ Len(q) = Len(p)
    /\ \A i \in 1..Len(q) : Count(q, q[i]) = Count(p, q[i])

\* C1: in a rendered report the i-th label and the i-th entry of each of the
\* five datasets belong to the i-th record in ascending created_at order; so
\* two records created at local 09:00 and 14:30 with numbness strengths 2 and
\* 5 give the numbness dataset <<2, 5>>.
C1_SeriesChronological ==
    Rendered =>
        LET recs == resp.records
        IN /\ \A i, j \in 1..Len(recs) :
                 i < j => ~DtLT(recs[j].created_at, recs[i].created_at)
           /\ Len(resp.labels) = Len(recs)
           /\ \A k \in 1..5 : Len(resp.datasets[k]) = Len(recs)
           /\ \A i \in 1..Len(recs) :
                 /\ resp.labels[i] = label(recs[i])
                 /\ resp.datasets[1][i] = recs[i].numbness_strength
                 /\ \A k \in 1..4 :
                        resp.datasets[k + 1][i] = Strengths(recs[i])[k]

\* the example of C1: the caller's two records of local 09:00 and 14:30 with
\* numbness strengths 2 and 5 are charted as <<5, 2>>
C1_Example ==
    /\ Rendered
    /\ Len(resp.records) = 2
    /\ astimezone_JST(resp.records[1].created_at)
           = datetime(2024, 6, 1, 9, 0, 0, 0)
    /\ astimezone_JST(resp.records[2].created_at)
           = datetime(2024, 6, 1, 14, 30, 0, 0)
    /\ resp.records[1].numbness_strength = 2
    /\ resp.records[2].numbness_strength = 5
    /\ resp.datasets[1] = <<5, 2>>

\* C2: in a rendered report, labels and the data of all five datasets have
\* the same length: the number of the caller's records in the range.
C2_SeriesSameLength ==
    Rendered =>
        LET n == Cardinality(InWindow(resp.caller, resp.args))
        IN /\ Len(resp.labels) = n
           /\ \A k \in 1..5 : Len(resp.datasets[k]) = n

\* a report over two records, one of them with a text that does not decode
C2_Witness ==
    /\ Rendered
    /\ Len(resp.labels) = 2
    /\ \E i \in 1..2 : ~resp.records[i].stiffness.json

\* C3: a delete request for an id with no record ends 404, one for another
\* owner's record ends 403, and both leave the store as it was; only a
\* request for a record of the caller removes it (and only it).
C3_DeleteChecksOwner ==
    [][resp'.op = "delete_record" =>
        LET u == resp'.caller
            found == {r \in records : r.id = resp'.args}
        IN /\ users' = users
           /\ found = {} => resp'.status = 404 /\ records' = records
           /\ (found # {} /\ \E r \in found : r.user_id # u) =>
                  resp'.status = 403 /\ records' = records
           /\ (found # {} /\ \A r \in found : r.user_id = u) =>
                  resp'.status = 302 /\ records' = records \ found]_vars

\* a delete refused with 403 while the record is still stored
C3_Witness ==
    /\ resp.op = "delete_record"
    /\ resp.status = 403
    /\ \E r \in records : r.id = resp.args /\ r.user_id # resp.caller

C5_RecordsHaveOwner ==
    \A r \in records : r.user_id \in UserIds

\* a stiffness text that is empty, corrupted, not a JSON object, or carries
\* a strength that is no integer
Malformed(text) ==
    \/ ~text.json
    \/ text.value.t # "dict"
    \/ /\ "strength" \in DOMAIN text.value.d
       /\ \/ text.value.d.strength.t # "dict"
          \/ \E k \in DOMAIN text.value.d.strength.d :
                int(text.value.d.strength.d[k]).exc # ""

\* a stiffness text that does not decode to a JSON object
Undecodable(text) ==
    ~text.json \/ text.value.t # "dict"

\* C6: a list or report request over records with a malformed stiffness text
\* does not fail; the decoded value of a text that is no JSON object is the
\* empty default, and a report of only malformed records has 0 in all four
\* stiffness series.
C6_ReadsTolerateMalformed ==
    (resp.op \in {"index_get", "report"} /\ resp.queried) =>
        /\ resp.status = 200
        /\ \A i \in 1..Len(resp.records) :
               Undecodable(resp.records[i].stiffness) =>
                   resp.records[i].stiffness_data = EmptyStiffness
        /\ (resp.op = "report"
              /\ \A i \in 1..Len(resp.records) :
                     Malformed(resp.records[i].stiffness)) =>
               \A k \in 2..5 : \A j \in 1..Len(resp.datasets[k]) :
                   resp.datasets[k][j] = 0

C8_BadBoundsRedirect ==
    [][(resp'.op = "report" /\ ~ValidBounds(resp'.args)) =>
        /\ resp'.status = 302
        /\ resp'.flash \in {"warning", "danger"}
        /\ ~resp'.queried
        /\ resp'.records = <<>>
        /\ users' = users
        /\ records' = records]_vars

\* an unparseable end_date was refused while the caller has records
C8_Witness ==
    /\ resp.op = "report"
    /\ resp.status = 302
    /\ resp.flash = "danger"
    /\ \E r \in records : r.user_id = resp.caller

\* C9: the records of a list or of a report all have the caller's user_id.
C9_OnlyOwnRecords ==
    resp.op \in {"index_get", "report"} =>
        \A i \in 1..Len(resp.records) : resp.records[i].user_id = resp.caller

\* a list or report that shows a record while another owner has one too
C9_Witness ==
    /\ resp.op \in {"index_get", "report"}
    /\ Len(resp.records) > 0
    /\ \E r \in records : r.user_id # resp.caller

\* the label the claim describes: month/day and HH:MM of the local created_at
LabelOfCreatedAt(r) ==
    strftime_md(astimezone_JST(r.created_at)) \o " "
        \o strftime_HM(astimezone_JST(r.created_at))

\* the label of the code: month/day of the user-chosen date, HH:MM of the
\* local created_at
LabelOfDate(r) ==
    Pad2(r.date.month) \o "/" \o Pad2(r.date.day) \o " "
        \o strftime_HM(astimezone_JST(r.created_at))

\* C10 as claimed: the labels of a rendered report are, record for record,
\* the local month/day and HH:MM of created_at.
C10_LabelsFromCreatedAt ==
    Rendered =>
        SameBag(resp.labels,
                [i \in 1..Len(resp.records) |-> LabelOfCreatedAt(resp.records[i])])

\* C10 as amended: the labels of a rendered report are, record for record,
\* the month/day of the record's user-chosen date followed by the local
\* HH:MM of created_at.
C10_LabelsFromDate ==
    Rendered =>
        SameBag(resp.labels,
                [i \in 1..Len(resp.records) |-> LabelOfDate(resp.records[i])])

\* a report with a record whose chosen date is not the day it was made on
C10_Witness ==
    /\ Rendered
    /\ \E i \in 1..Len(resp.records) :
           resp.records[i].date
               # date_of(astimezone_JST(resp.records[i].created_at))

====
